---- MODULE Spec2Model ----
(***************************************************************************)
(* HashTable<K, V> of src/lib.rs: open addressing with linear probing, a   *)
(* Vec<Option<(K, V)>> of slots and a size counter, growth by doubling.    *)
(*                                                                         *)
(* Encoding.  A slot is None (the empty tuple) or Some((k, v)) = <<k, v>>. *)
(* An Option<V> or Option<usize> result is None or <<x>>.  The Vec of      *)
(* slots is a sequence, so the Rust slot index i is position i + 1.        *)
(* Keys are 1..NumKeys, values 1..NumValues.  DefaultHasher's finish() is  *)
(* an arbitrary deterministic function of the key: it is the variable      *)
(* hashes, chosen in Init from HashFamily and never changed.  usize        *)
(* arithmetic never comes near 2^64 within the bounds, so it is unbounded. *)
(***************************************************************************)
EXTENDS Integers, Sequences, FiniteSets

\* const INITIAL_CAPACITY
INITIAL_CAPACITY == 16

\* ---------------------------------------------------------------- bounds
\* The workload.  The keys of HotKeys are inserted with any value, any number
\* of times, and removed, at most MaxRemoves calls of remove in all.  The other
\* keys are fillers that drive growth: each is inserted once, in increasing
\* order, with the value FillValue(key), and never removed.  Every key is
\* looked up at any time.
NumKeys == 9
NumValues == 2
MaxRemoves == 2

Keys == 1..NumKeys
HotKeys == {1, 2}
Values == 1..NumValues
FillValue(key) == (key % NumValues) + 1

\* The hash functions tried.  ClusterHash(c) sends the keys 1..c to the last
\* slot of the initial array, so that they collide and their probes wrap
\* around; the odd ones get INITIAL_CAPACITY more, so that the cluster
\* collides modulo 16 and splits in two modulo 32.  The keys above c hash to
\* 2 * (k \div 2): they collide in pairs, at any capacity, at neighbouring
\* ideal indices, so that they build one long run which the cluster runs into.
\* With c = 1 hot key 2 collides with a filler, with c = 2 the hot keys
\* collide with each other.
ClusterHash(c) ==
    [k \in Keys |-> IF k <= c
                    THEN (INITIAL_CAPACITY - 1) + (k % 2) * INITIAL_CAPACITY
                    ELSE 2 * (k \div 2)]
HashFamily == { ClusterHash(1), ClusterHash(Cardinality(HotKeys)) }

None == << >>
Some(x) == << x >>

VARIABLES
    slots,      \* self.slots
    size,       \* self.size
    hashes,     \* key |-> DefaultHasher finish() of the key
    hung,       \* TRUE once a call entered a loop that never ends
    ret,        \* the Option the last get or remove returned (None after new and insert)
    model,      \* history: key |-> Some(last inserted value), None when not in the map
    inserted,   \* history: the keys ever passed to insert
    removed,    \* history: keys whose last insert/remove was a remove that returned Some
    nRemoves    \* history: number of remove calls so far

vars == << slots, size, hashes, hung, ret, model, inserted, removed, nRemoves >>

\* The table as the methods see it (self), with the divergence flag of the call.
Table(sl, sz) == [slots |-> sl, size |-> sz, hang |-> FALSE]
Self == Table(slots, size)

\* fn hash: hasher.finish() as usize % self.slots.len()
hash(sl, key) == hashes[key] % Len(sl)

\* Mutant of find_slot_loop: keys are taken for equal when their hashes are.
RECURSIVE find_slot_loop_hasheq(_, _, _)
find_slot_loop_hasheq(sl, key, index) ==
    IF sl[index + 1] = None THEN None
    ELSE IF hashes[sl[index + 1][1]] = hashes[key] THEN << index >>
    ELSE LET next == (index + 1) % Len(sl)
         IN  IF next = hash(sl, key) THEN None
             ELSE find_slot_loop_hasheq(sl, key, next)

\* Mutant of find_slot_loop: the stop compares the index with 0 instead of
\* the ideal index.
RECURSIVE find_slot_loop_stop0(_, _, _)
find_slot_loop_stop0(sl, key, index) ==
    IF sl[index + 1] = None THEN None
    ELSE IF sl[index + 1][1] = key THEN << index >>
    ELSE LET next == (index + 1) % Len(sl)
         IN  IF next = 0 THEN None
             ELSE find_slot_loop_stop0(sl, key, next)

\* fn find_slot: the while-let loop from a given index.
RECURSIVE find_slot_loop(_, _, _)
find_slot_loop(sl, key, index) ==
    IF sl[index + 1] = None THEN None
    ELSE IF sl[index + 1][1] = key THEN Some(index)
    ELSE LET next == (index + 1) % Len(sl)
         IN  IF next = hash(sl, key) THEN None
             ELSE find_slot_loop(sl, key, next)

\* The number of slots the loop of find_slot examines from a given index.
RECURSIVE find_slot_examined(_, _, _)
find_slot_examined(sl, key, index) ==
    IF sl[index + 1] = None THEN 1
    ELSE IF sl[index + 1][1] = key THEN 1
    ELSE LET next == (index + 1) % Len(sl)
         IN  IF next = hash(sl, key) THEN 1
             ELSE 1 + find_slot_examined(sl, key, next)

\* Mutant of find_slot: only the ideal index is looked at, no probing.
find_slot_noprobe(sl, key) ==
    IF sl[hash(sl, key) + 1] # None /\ sl[hash(sl, key) + 1][1] = key
    THEN << hash(sl, key) >> ELSE None

find_slot(sl, key) == find_slot_loop(sl, key, hash(sl, key))

\* The placement loop of insert (lib.rs 40-42): advance while the slot is
\* Some.  It has no stop of its own: after Len(sl) occupied slots the scan is
\* back where it started over an unchanged array and never ends (Diverge).
Diverge == -1

\* Mutant of ScanNext: the index is not advanced.
ScanNext_stuck(index, capacity) == index % capacity

ScanNext(index, capacity) == (index + 1) % capacity

\* Mutant of place_scan: the scan starts one slot after the ideal index.
RECURSIVE place_scan_late(_, _, _)
place_scan_late(sl, index, steps) ==
    LET first == IF steps = 0 THEN ScanNext(index, Len(sl)) ELSE index IN
    IF sl[first + 1] = None THEN first
    ELSE IF steps >= Len(sl) THEN Diverge
    ELSE place_scan_late(sl, ScanNext(first, Len(sl)), steps + 1)

RECURSIVE place_scan(_, _, _)
place_scan(sl, index, steps) ==
    IF sl[index + 1] = None THEN index
    ELSE IF steps >= Len(sl) THEN Diverge
    ELSE place_scan(sl, ScanNext(index, Len(sl)), steps + 1)

\* Mutant of NeedsResize: > for >=.
NeedsResize_gt(t) == t.size * 2 > Len(t.slots)

\* The growth test of insert (lib.rs 33).
NeedsResize(t) == t.size * 2 >= Len(t.slots)

\* Mutant of NewCapacity: the doubling is forgotten.
NewCapacity_same(sl) == Len(sl)

\* Mutant of NewCapacity: / for *.
NewCapacity_half(sl) == Len(sl) \div 2

\* The length of the array resize allocates (lib.rs 97).
NewCapacity(sl) == Len(sl) * 2

\* fn insert and fn resize (mutually recursive, as in the source).
RECURSIVE insert(_, _, _)
RECURSIVE resize(_)
RECURSIVE reinsert(_, _, _)

\* The table when the placement loop of insert starts (lib.rs 33-38).
before_place(t) == IF NeedsResize(t) THEN resize(t) ELSE t

\* Mutant of insert: the overwrite of an existing key counts it again.
insert_recount(t, key, value) ==
    LET found == find_slot(t.slots, key) IN
    IF found # None
    THEN [t EXCEPT !.slots[found[1] + 1] = << key, value >>, !.size = t.size + 1]
    ELSE LET t1 == before_place(t) IN
         IF t1.hang THEN t1
         ELSE LET index == place_scan(t1.slots, hash(t1.slots, key), 0) IN
              IF index = Diverge
              THEN [t1 EXCEPT !.hang = TRUE]
              ELSE [t1 EXCEPT !.slots[index + 1] = << key, value >>,
                              !.size = t1.size + 1]

\* Mutant of insert: the growth test comes before the lookup.
insert_growfirst(t, key, value) ==
    LET t0 == before_place(t)
        found == find_slot(t0.slots, key) IN
    IF found # None
    THEN [t0 EXCEPT !.slots[found[1] + 1] = << key, value >>]
    ELSE LET index == place_scan(t0.slots, hash(t0.slots, key), 0) IN
         IF index = Diverge
         THEN [t0 EXCEPT !.hang = TRUE]
         ELSE [t0 EXCEPT !.slots[index + 1] = << key, value >>,
                         !.size = t0.size + 1]

insert(t, key, value) ==
    LET found == find_slot(t.slots, key) IN
    IF found # None
    THEN [t EXCEPT !.slots[found[1] + 1] = << key, value >>]
    ELSE LET t1 == before_place(t) IN
         IF t1.hang THEN t1
         ELSE LET index == place_scan(t1.slots, hash(t1.slots, key), 0) IN
              IF index = Diverge
              THEN [t1 EXCEPT !.hang = TRUE]
              ELSE [t1 EXCEPT !.slots[index + 1] = << key, value >>,
                              !.size = t1.size + 1]

\* The table resize starts from (lib.rs 97-99): the new array of None in
\* place of the old one, size 0.
emptied(t) ==
    LET new_slots == [i \in 1..NewCapacity(t.slots) |-> None]
    IN  [t EXCEPT !.slots = new_slots, !.size = 0]

\* for slot in old_slots.into_iter().flatten() { self.insert(slot.0, slot.1) }
reinsert(old_slots, i, t) ==
    IF i > Len(old_slots) \/ t.hang THEN t
    ELSE IF old_slots[i] = None THEN reinsert(old_slots, i + 1, t)
    ELSE reinsert(old_slots, i + 1, insert(t, old_slots[i][1], old_slots[i][2]))

\* Mutant of resize: the old entries are copied to their old indices instead
\* of being inserted again.
resize_copy(t) ==
    [t EXCEPT !.slots = [i \in 1..NewCapacity(t.slots) |->
                            IF i <= Len(t.slots) THEN t.slots[i] ELSE None]]

\* Mutant of resize: size is not reset before the entries are inserted again.
resize_keepsize(t) ==
    LET new_slots == [i \in 1..NewCapacity(t.slots) |-> None]
    IN  reinsert(t.slots, 1, [t EXCEPT !.slots = new_slots])

resize(t) == reinsert(t.slots, 1, emptied(t))

\* fn get
get(t, key) ==
    LET found == find_slot(t.slots, key) IN
    IF found # None THEN Some(t.slots[found[1] + 1][2]) ELSE None

\* Mutant of TakenSlot: the entry is read (cloned) but left in its slot.
TakenSlot_keep(sl, index) == sl

\* The slot remove writes over the one find_slot found: take() leaves None.
TakenSlot(sl, index) == [sl EXCEPT ![index + 1] = None]

\* Mutant of remove: size is not decremented.
remove_nodec(t, key) ==
    LET found == find_slot(t.slots, key) IN
    IF found # None
    THEN [t EXCEPT !.slots = TakenSlot(t.slots, found[1])]
    ELSE t

\* fn remove: the table afterwards, and the value returned.
remove(t, key) ==
    LET found == find_slot(t.slots, key) IN
    IF found # None
    THEN [t EXCEPT !.slots = TakenSlot(t.slots, found[1]), !.size = t.size - 1]
    ELSE t

remove_ret(t, key) == get(t, key)

\* Mutant of new_slots_init: one slot short.
new_slots_init_short == [i \in 1..(INITIAL_CAPACITY - 1) |-> None]

\* fn new
new_slots_init == [i \in 1..INITIAL_CAPACITY |-> None]

new == Table(new_slots_init, 0)

\* impl Default: Self::new()
default == new

Init ==
    /\ slots = new_slots_init
    /\ size = 0
    /\ hashes \in HashFamily
    /\ hung = FALSE
    /\ ret = None
    /\ model = [k \in Keys |-> None]
    /\ inserted = {}
    /\ removed = {}
    /\ nRemoves = 0

\* The calls of insert the workload makes (see the bounds).
NextFiller == IF \E k \in Keys \ HotKeys : k \notin inserted
              THEN { CHOOSE k \in Keys \ HotKeys :
                        k \notin inserted /\ \A j \in Keys \ HotKeys : j < k => j \in inserted }
              ELSE {}
InsertCalls == { << k, v >> \in Keys \X Values :
                    k \in HotKeys \/ (k \in NextFiller /\ v = FillValue(k)) }

Insert(key, value) ==
    /\ ~hung
    /\ << key, value >> \in InsertCalls
    /\ LET t == insert(Self, key, value) IN
        /\ slots' = t.slots
        /\ size' = t.size
        /\ hung' = t.hang
    /\ ret' = None
    /\ model' = [model EXCEPT ![key] = Some(value)]
    /\ inserted' = inserted \cup {key}
    /\ removed' = removed \ {key}
    /\ UNCHANGED << hashes, nRemoves >>

Get(key) ==
    /\ ~hung
    /\ ret' = get(Self, key)
    /\ UNCHANGED << slots, size, hashes, hung, model, inserted, removed, nRemoves >>

Remove(key) ==
    /\ ~hung
    /\ nRemoves < MaxRemoves
    /\ LET t == remove(Self, key)
           r == remove_ret(Self, key) IN
        /\ slots' = t.slots
        /\ size' = t.size
        /\ ret' = r
        /\ model' = IF r # None THEN [model EXCEPT ![key] = None] ELSE model
        /\ removed' = IF r # None THEN removed \cup {key} ELSE removed
    /\ nRemoves' = nRemoves + 1
    /\ UNCHANGED << hashes, hung, inserted >>

Next ==
    \/ \E key \in Keys, value \in Values : Insert(key, value)
    \/ \E key \in Keys : Get(key)
    \/ \E key \in HotKeys : Remove(key)

Spec == Init /\ [][Next]_vars

\* ------------------------------------------------------------ vocabulary
Capacity == Len(slots)
OccupiedAt(sl) == { i \in 1..Len(sl) : sl[i] # None }
HoldsKey(sl, key) == { i \in OccupiedAt(sl) : sl[i][1] = key }
Live == { k \in Keys : model[k] # None }

\* The positions the probe of key visits from its ideal index up to, not
\* including, position j (with wraparound).
ProbePath(sl, key, j) ==
    { ((hash(sl, key) + d) % Len(sl)) + 1 :
        d \in 0..(((j - 1 - hash(sl, key)) % Len(sl)) - 1) }

TypeOK ==
    /\ size \in Nat
    /\ Len(slots) >= INITIAL_CAPACITY
    /\ hung \in BOOLEAN
    /\ ret \in {None} \cup { Some(v) : v \in Values }
    /\ inserted \subseteq Keys
    /\ removed \subseteq HotKeys
    /\ nRemoves \in 0..MaxRemoves

\* ------------------------------------------------------------------- C1
\* C1: after inserts only (no call of remove), with colliding keys and across
\* growth, get(k) returns the value of the last insert(k, v), for every key
\* that was inserted.
C1_RoundTrip ==
    nRemoves = 0 => \A k \in inserted : get(Self, k) = model[k]

\* Every key is in, the table has grown, a hot key was overwritten with the
\* other value and sits away from its ideal index.
C1_Witness ==
    /\ nRemoves = 0
    /\ inserted = Keys
    /\ Capacity > INITIAL_CAPACITY
    /\ \E k \in HotKeys :
        /\ get(Self, k) = Some(2)
        /\ find_slot(slots, k) # Some(hash(slots, k))

\* ------------------------------------------------------------------- C2
\* C2: remove neither leaves a tombstone nor shifts entries back: when the
\* slot remove(k) clears lies on the probe path of another reachable key k2,
\* before the slot of k2, then after remove(k) get(k2) returns absent although
\* the slot of k2 still holds k2.
C2_RemoveBreaksChain ==
    \A k \in Keys, k2 \in Keys :
        LET f == find_slot(slots, k)
            f2 == find_slot(slots, k2) IN
        (k # k2 /\ f # None /\ f2 # None
            /\ (f[1] + 1) \in ProbePath(slots, k2, f2[1] + 1))
        => LET t == remove(Self, k) IN
            /\ get(t, k2) = None
            /\ t.slots[f2[1] + 1] = slots[f2[1] + 1]
            /\ t.slots[f2[1] + 1][1] = k2

\* The state after such a remove: key k2 was inserted, no remove of k2 was
\* ever called, a slot holds k2, and get(k2) returns absent.
C2_Witness ==
    \E k2 \in Keys :
        /\ nRemoves = 1
        /\ removed # {} /\ k2 \notin removed
        /\ model[k2] # None
        /\ HoldsKey(slots, k2) # {}
        /\ get(Self, k2) = None

\* ------------------------------------------------------------------- C3
\* C3: in every reachable state, insert(k, v) when some Occupied slot holds a
\* key equal to k overwrites that slot's value in place, leaves size
\* unchanged, and a following get(k) returns v.
C3_Overwrite ==
    \A k \in Keys, v \in Values :
        HoldsKey(slots, k) # {}
        => LET t == insert(Self, k, v) IN
            /\ ~t.hang
            /\ t.size = size
            /\ \E i \in HoldsKey(slots, k) : t.slots = [slots EXCEPT ![i] = << k, v >>]
            /\ get(t, k) = Some(v)

\* ------------------------------------------------------------------- C4
\* C4: whenever get(k) would return a value v, remove(k) returns exactly v,
\* sets the slot that held it to Empty, decrements size by exactly 1, changes
\* no other slot and not the capacity, and get(k) right afterwards is absent.
C4_RemoveFound ==
    \A k \in Keys :
        get(Self, k) # None
        => LET t == remove(Self, k)
               i == find_slot(slots, k)[1] + 1 IN
            /\ remove_ret(Self, k) = get(Self, k)
            /\ slots[i] = << k, get(Self, k)[1] >>
            /\ t.slots = [slots EXCEPT ![i] = None]
            /\ t.size = size - 1
            /\ Len(t.slots) = Len(slots)
            /\ get(t, k) = None

\* A remove has just returned the value of a key that sat away from its
\* ideal index, and the key is now absent.
C4_Witness ==
    \E k \in removed :
        /\ ret # None
        /\ get(Self, k) = None
        /\ slots[hash(slots, k) + 1] # None
        /\ size = Cardinality(OccupiedAt(slots))
        /\ size >= 2

\* ------------------------------------------------------------------- C5
\* C5: for a key never passed to insert, get and remove return absent, and
\* remove leaves size, capacity and every slot unchanged.
C5_NeverInserted ==
    \A k \in Keys \ inserted :
        /\ get(Self, k) = None
        /\ remove_ret(Self, k) = None
        /\ remove(Self, k) = Self

\* A key never inserted whose ideal slot is occupied by another key, so that
\* the probe has to compare keys and walk on; remove has been called and the
\* last call returned absent.
C5_Witness ==
    \E k \in Keys \ inserted :
        /\ slots[hash(slots, k) + 1] # None
        /\ nRemoves > 0
        /\ ret = None

\* ------------------------------------------------------------------- C6
\* C6: once remove(k) has returned a value, every later get(k) and remove(k)
\* returns absent and does not change size, until insert(k, _) is called
\* again, whatever happens to other keys in between.
C6_RemovedStaysAbsent ==
    \A k \in removed :
        /\ get(Self, k) = None
        /\ remove_ret(Self, k) = None
        /\ remove(Self, k).size = size

\* ------------------------------------------------------------------- C7
\* C7: size equals the number of distinct keys logically in the map (inserted
\* and not removed since their last insert).
C7_SizeAccounting == size = Cardinality(Live)

\* ------------------------------------------------------------------- C8
\* C8 (as claimed): size <= capacity and size * 2 < capacity, strictly, in
\* every reachable state.
C8_LoadStrictlyBelowHalf ==
    /\ size <= Capacity
    /\ size * 2 < Capacity

\* C8 (amended): size <= capacity and size * 2 <= capacity in every reachable
\* state; the load factor can be exactly one half.
C8_LoadAtMostHalf ==
    /\ size <= Capacity
    /\ size * 2 <= Capacity

\* Inserts have filled the table to exactly one half: the next insert of a
\* new key grows it.
C8_Witness ==
    /\ size * 2 = Capacity
    /\ size = Cardinality(inserted)
    /\ NeedsResize(Self)

\* ------------------------------------------------------------------- C9
\* C9: after inserting N distinct keys with no removes the capacity is at
\* least 2N, and in every reachable state the capacity is 16 * 2^k.
MaxDoublings == 3
C9_GrowthTrigger ==
    /\ nRemoves = 0 => Capacity >= 2 * Cardinality(inserted)
    /\ \E k \in 0..MaxDoublings : Capacity = INITIAL_CAPACITY * 2^k

\* All keys are in and the table has grown once.
C9_Witness ==
    /\ nRemoves = 0
    /\ Cardinality(inserted) = NumKeys
    /\ Capacity = INITIAL_CAPACITY * 2

\* ------------------------------------------------------------------ C10
\* C10: in every reachable state insert(k, v) terminates for every key and
\* value, because the table has an Empty slot when the placement scan starts;
\* the scan itself has no wraparound stop (over a full array it never ends).
FullSlots == [i \in 1..INITIAL_CAPACITY |-> << 1, 1 >>]
C10_InsertTerminates ==
    /\ \A k \in Keys, v \in Values :
        /\ ~insert(Self, k, v).hang
        /\ find_slot(slots, k) = None
            => LET t1 == before_place(Self) IN
                /\ ~t1.hang
                /\ \E i \in 1..Len(t1.slots) : t1.slots[i] = None
    /\ ~hung
    /\ \A i \in 0..(INITIAL_CAPACITY - 1) : place_scan(FullSlots, i, 0) = Diverge

\* The table has grown inside an insert, and the placement scan has advanced
\* past occupied slots: a key sits away from its ideal index.
C10_Witness ==
    /\ Capacity > INITIAL_CAPACITY
    /\ \E k \in inserted :
        /\ find_slot(slots, k) # None
        /\ find_slot(slots, k)[1] # hash(slots, k)

\* ------------------------------------------------------------------ C11
\* C11: a table made by new() or default() has capacity 16, every slot Empty
\* and size 0, and get(k) returns absent for every key; this is the table as
\* long as insert has not been called.
C11_DefaultConstruction ==
    inserted = {}
    => /\ Self = new /\ Self = default
       /\ Capacity = 16
       /\ \A i \in 1..Capacity : slots[i] = None
       /\ size = 0
       /\ \A k \in Keys : get(Self, k) = None

\* The fresh table after calls of remove and a lookup that returned absent.
C11_Witness ==
    /\ inserted = {}
    /\ nRemoves > 0
    /\ ret = None
    /\ Capacity = INITIAL_CAPACITY

\* ------------------------------------------------------------------ C12
\* C12: in every reachable state size equals the number of Occupied slots and
\* 0 <= size <= capacity; remove never takes size below 0.
C12_SizeCountsOccupied ==
    /\ size = Cardinality(OccupiedAt(slots))
    /\ 0 <= size /\ size <= Capacity
    /\ \A k \in Keys : remove(Self, k).size >= 0

\* Two entries of one key are counted twice after a remove and a re-insert.
C12_Witness ==
    /\ nRemoves > 0
    /\ size = Cardinality(OccupiedAt(slots))
    /\ \E k \in Keys : Cardinality(HoldsKey(slots, k)) = 2

\* ------------------------------------------------------------------ C13
\* C13: in every state reached by inserts only, across growth, every slot on
\* the forward wraparound scan from hash(k) mod capacity up to the slot j that
\* holds key k is Occupied, so find_slot(k) reaches j.
ChainIntact(sl) ==
    \A j \in OccupiedAt(sl) :
        /\ ProbePath(sl, sl[j][1], j) \subseteq OccupiedAt(sl)
        /\ find_slot(sl, sl[j][1]) = Some(j - 1)

C13_ProbeChain == nRemoves = 0 => ChainIntact(slots)

\* Inserts only, the table has grown, and after the rehash two keys sit past
\* their ideal indices, behind occupied slots.
C13_Witness ==
    /\ nRemoves = 0
    /\ Capacity > INITIAL_CAPACITY
    /\ Cardinality({ j \in OccupiedAt(slots) : ProbePath(slots, slots[j][1], j) # {} }) >= 2

\* ------------------------------------------------------------------ C14
\* C14: in every reachable state no two Occupied slots hold equal keys.
C14_KeyUniqueness ==
    \A k \in Keys : Cardinality(HoldsKey(slots, k)) <= 1

\* ------------------------------------------------------------------ C15
\* C15: for a table reached by inserts only, one grow step makes the capacity
\* exactly twice the old one, leaves size as it was and the result of get(k)
\* unchanged for every key, with every key placed according to hash(k) mod
\* the new capacity.
C15_GrowthPreserves ==
    nRemoves = 0
    => LET t == resize(Self) IN
        /\ ~t.hang
        /\ Len(t.slots) = 2 * Capacity
        /\ t.size = size
        /\ \A k \in Keys : get(t, k) = get(Self, k)
        /\ ChainIntact(t.slots)
        /\ \A k \in inserted : HoldsKey(t.slots, k) # {}

\* Inserts only, the table is half full with an overwritten hot key, so that
\* the next insert of a new key runs the grow step.
C15_Witness ==
    /\ nRemoves = 0
    /\ NeedsResize(Self)
    /\ \E k \in HotKeys : get(Self, k) = Some(2)
    /\ \E k \in Keys : find_slot(slots, k) = None

\* ------------------------------------------------------------------ C16
\* C16: insert(k, v) grows the table if and only if find_slot(k) finds no slot
\* and size * 2 >= capacity for the size before the new entry is counted; the
\* growth is complete before the new entry is placed; an insert that
\* overwrites a reachable key never changes the capacity.
C16_GrowthOrdering ==
    \A k \in Keys, v \in Values :
        LET t == insert(Self, k, v)
            g == resize(Self) IN
        /\ (Len(t.slots) # Capacity) <=> (find_slot(slots, k) = None /\ size * 2 >= Capacity)
        /\ (find_slot(slots, k) = None /\ size * 2 >= Capacity)
            => /\ t.size = g.size + 1
               /\ \E i \in 1..Len(g.slots) :
                    /\ g.slots[i] = None
                    /\ t.slots = [g.slots EXCEPT ![i] = << k, v >>]
        /\ find_slot(slots, k) # None => Len(t.slots) = Capacity

\* The table is half full after a remove and a re-insert: inserting a key it
\* holds would overwrite, inserting a key it does not find would grow.
C16_Witness ==
    /\ size * 2 >= Capacity
    /\ nRemoves > 0
    /\ \E k \in Keys : find_slot(slots, k) # None
    /\ \E k \in Keys : find_slot(slots, k) = None

\* ------------------------------------------------------------------ C17
\* C17: when insert(k, v) finds no slot for k and does not grow, it writes
\* (k, v) into the first Empty slot on the forward wraparound scan from
\* hash(k) mod capacity, increments size by exactly 1, and leaves every other
\* slot and the capacity unchanged.
C17_PlacementFrame ==
    \A k \in Keys, v \in Values :
        (find_slot(slots, k) = None /\ ~NeedsResize(Self))
        => LET t == insert(Self, k, v) IN
            /\ t.size = size + 1
            /\ \E j \in 1..Capacity :
                /\ slots[j] = None
                /\ ProbePath(slots, k, j) \subseteq OccupiedAt(slots)
                /\ t.slots = [slots EXCEPT ![j] = << k, v >>]

\* A key the table does not find, whose ideal slot and the one after it are
\* occupied, in a table that does not have to grow.
C17_Witness ==
    /\ ~NeedsResize(Self)
    /\ \E k \in Keys :
        /\ find_slot(slots, k) = None
        /\ slots[hash(slots, k) + 1] # None
        /\ slots[ScanNext(hash(slots, k), Capacity) + 1] # None

\* ------------------------------------------------------------------ C18
\* find_slot as a function of the slot array: SpecFind starts from every
\* array of 1..MaxFindCapacity slots over the keys 1..NumFindKeys, reachable
\* through the public methods or not (a full array is not), and calls
\* find_slot on it.
MaxFindCapacity == 3
NumFindKeys == 3

FindSlotContents == {None} \cup { << k, FillValue(k) >> : k \in 1..NumFindKeys }
FindArrays ==
    UNION { [1..n -> FindSlotContents] : n \in 1..MaxFindCapacity }

InitFind ==
    /\ slots \in FindArrays
    /\ size = Cardinality({ i \in DOMAIN slots : slots[i] # None })
    /\ hashes \in HashFamily
    /\ hung = FALSE
    /\ ret = None
    /\ model = [k \in Keys |-> None]
    /\ inserted = {}
    /\ removed = {}
    /\ nRemoves = 0

\* A call of find_slot; ret takes the Option<usize> it returns.
FindSlot(key) ==
    /\ ret' = find_slot(slots, key)
    /\ UNCHANGED << slots, size, hashes, hung, model, inserted, removed, nRemoves >>

NextFind == \E key \in Keys : FindSlot(key)

SpecFind == InitFind /\ [][NextFind]_vars

\* The position the probe of key looks at after d steps.
ProbeAt(sl, key, d) == ((hash(sl, key) + d) % Len(sl)) + 1

\* The offsets at which the probe meets key with only other keys before it.
MatchOffsets(sl, key) ==
    { d \in 0..(Len(sl) - 1) :
        /\ sl[ProbeAt(sl, key, d)] # None
        /\ sl[ProbeAt(sl, key, d)][1] = key
        /\ \A e \in 0..(d - 1) :
            sl[ProbeAt(sl, key, e)] # None /\ sl[ProbeAt(sl, key, e)][1] # key }

\* C18: for every slot array, a full one without the key included, find_slot
\* ends after examining at most capacity slots; it returns the index of the
\* matching slot when one lies on the scan before any Empty slot, and absent
\* otherwise.
C18_FindSlotStops ==
    \A k \in Keys :
        /\ find_slot_examined(slots, k, hash(slots, k)) <= Len(slots)
        /\ \A d \in MatchOffsets(slots, k) :
            find_slot(slots, k) = Some(ProbeAt(slots, k, d) - 1)
        /\ MatchOffsets(slots, k) = {} => find_slot(slots, k) = None
        /\ (OccupiedAt(slots) = DOMAIN slots /\ HoldsKey(slots, k) = {})
            => /\ find_slot(slots, k) = None
               /\ find_slot_examined(slots, k, hash(slots, k)) = Len(slots)

\* A full array of several slots without some key, and a call that returned
\* absent; and a key found after the probe wrapped around.
C18_Witness ==
    /\ Len(slots) > 1
    /\ OccupiedAt(slots) = DOMAIN slots
    /\ ret = None
    /\ \E k \in Keys : HoldsKey(slots, k) = {}
    /\ \E k \in Keys :
        /\ find_slot(slots, k) # None
        /\ find_slot(slots, k)[1] < hash(slots, k)

\* ------------------------------------------------------------------ C19
\* C19: in every reachable state insert(k, v) leaves the result of get(k2)
\* unchanged for every key k2 different from k, whether or not it grows.
C19_InsertKeepsOthers ==
    \A k \in Keys, v \in Values, k2 \in Keys :
        k2 # k => get(insert(Self, k, v), k2) = get(Self, k2)

\* ------------------------------------------------------------------ C20
\* Whether the re-inserts of resize, from entry i of the old array on into
\* table t, never meet the growth test of insert with a key t does not hold.
RECURSIVE NoNestedResize(_, _, _)
NoNestedResize(old_slots, i, t) ==
    IF i > Len(old_slots) THEN TRUE
    ELSE IF old_slots[i] = None THEN NoNestedResize(old_slots, i + 1, t)
    ELSE IF find_slot(t.slots, old_slots[i][1]) = None /\ NeedsResize(t) THEN FALSE
    ELSE NoNestedResize(old_slots, i + 1, insert(t, old_slots[i][1], old_slots[i][2]))

\* C20: while resize re-inserts the old entries (size reset to 0, the doubled
\* array installed) none of the re-inserts triggers another resize, in every
\* reachable state; each public insert grows the capacity by a factor of at
\* most 2.
C20_NoNestedGrowth ==
    /\ NoNestedResize(slots, 1, emptied(Self))
    /\ Len(resize(Self).slots) = 2 * Capacity
    /\ \A k \in Keys, v \in Values :
        Len(insert(Self, k, v).slots) \in { Capacity, 2 * Capacity }

\* A half-full table that holds a key twice: the next insert of a key it does
\* not find runs resize, whose re-inserts overwrite as well as place.
C20_Witness ==
    /\ NeedsResize(Self)
    /\ \E k \in Keys : Cardinality(HoldsKey(slots, k)) = 2
    /\ \E k \in Keys : find_slot(slots, k) = None /\ Len(insert(Self, k, 1).slots) = 2 * Capacity
====
